---- MODULE Spec2Model ----
(***************************************************************************)
(* gnvext: converters of environment-variable strings into typed values.  *)
(*                                                                         *)
(* A Python str is modelled as a sequence of one-character strings, a      *)
(* Python value as a record [type |-> type name, data |-> payload], a     *)
(* call result as [tag |-> "return" | "raise", val |-> value].             *)
(***************************************************************************)
EXTENDS Integers, Sequences, FiniteSets, TLC

VARIABLES
    suite,                      \* the EnvVariablesTestSuite whose TESTCASES supply the values
    cls,                        \* CLS_TO_TEST: the converter class under use
    default,                    \* EnvVariable.default
    truthy_values,              \* BooleanEnvVariable.truthy_values
    falsy_values,               \* BooleanEnvVariable.falsy_values
    convert_collection_type,    \* CollectionEnvVariable.convert_collection_type
    datetime_format,            \* DateTimeEnvVariable.datetime_format
    environ,                    \* os.environ[TEST_ENV_VAR_NAME], or MISSING
    pc,                         \* "setup" -> "done"
    convert_calls,              \* number of calls of self.convert made by value
    collection,                 \* CollectionEnvVariable.convert: result of ast.literal_eval
    outcome                     \* what reading converter.value produced

vars == <<suite, cls, default, truthy_values, falsy_values, convert_collection_type,
          datetime_format, environ, pc, convert_calls, collection, outcome>>

(***************************************************************************)
(* Bounds of the explored inputs.                                          *)
(***************************************************************************)
MaxScalarLen == 3
MaxBoolLen == 3
MaxPad == 2
MaxCollLen == 3
MaxTokens == 2
MaxLitLen == 4

(***************************************************************************)
(* Python values.  Every value names its type first and carries its        *)
(* payload second, so that two values of different types compare by type   *)
(* and payloads of different shapes are never compared with each other.    *)
(***************************************************************************)
MISSING == [type |-> "MISSING", data |-> <<>>]
Ellipsis == [type |-> "ellipsis", data |-> <<>>]
None == [type |-> "None", data |-> <<>>]
Str(s) == [type |-> "str", data |-> s]
PyInt(n) == [type |-> "int", data |-> n]
PyFloat(scaled) == [type |-> "float", data |-> scaled]
Bool(b) == [type |-> "bool", data |-> IF b THEN <<"True">> ELSE <<"False">>]
Type(name) == [type |-> "type", data |-> <<name>>]
ExcClass(name) == [type |-> "exception class", data |-> <<name>>]
ExcInstance(name) == [type |-> "exception", data |-> <<name>>]

Return(x) == [tag |-> "return", val |-> x]
Raise(name) == [tag |-> "raise", val |-> ExcInstance(name)]
NotRun == [tag |-> "none", val |-> None]

IsException(x) == x.type \in {"exception class", "exception"}

(***************************************************************************)
(* str methods.                                                            *)
(***************************************************************************)
Whitespace == {" ", "\t", "\n", "\r", "\f"}

RECURSIVE lstrip(_, _)
lstrip(s, chars) ==
    IF s # <<>> /\ Head(s) \in chars THEN lstrip(Tail(s), chars) ELSE s

RECURSIVE rstrip(_, _)
rstrip(s, chars) ==
    IF s # <<>> /\ s[Len(s)] \in chars
    THEN rstrip(SubSeq(s, 1, Len(s) - 1), chars)
    ELSE s

\* str.strip(chars); str.strip() is strip(s, Whitespace)
strip(s, chars) == rstrip(lstrip(s, chars), chars)

startswith(s, p) == Len(s) >= Len(p) /\ SubSeq(s, 1, Len(p)) = p

endswith(s, p) == Len(s) >= Len(p) /\ SubSeq(s, Len(s) - Len(p) + 1, Len(s)) = p

\* str.split() with no separator: runs of whitespace separate, no empty items
RECURSIVE split_from(_, _, _)
split_from(s, cur, acc) ==
    IF s = <<>>
    THEN IF cur = <<>> THEN acc ELSE Append(acc, cur)
    ELSE IF Head(s) \in Whitespace
         THEN split_from(Tail(s), <<>>, IF cur = <<>> THEN acc ELSE Append(acc, cur))
         ELSE split_from(Tail(s), Append(cur, Head(s)), acc)

split(s) == split_from(s, <<>>, <<>>)

\* str.replace(old, new) for a one-character old
RECURSIVE replace(_, _, _)
replace(s, old, new) ==
    IF s = <<>> THEN <<>>
    ELSE (IF Head(s) = old THEN new ELSE <<Head(s)>>) \o replace(Tail(s), old, new)

\* sep.join(items)
RECURSIVE join(_, _)
join(sep, items) ==
    IF items = <<>> THEN <<>>
    ELSE IF Len(items) = 1 THEN items[1]
    ELSE items[1] \o sep \o join(sep, Tail(items))

Digits == {"0", "1", "2", "3", "4", "5", "6", "7", "8", "9"}
Letters == {"a", "b", "c", "d", "l", "v", "x"}

DigitVal(c) ==
    CASE c = "0" -> 0 [] c = "1" -> 1 [] c = "2" -> 2 [] c = "3" -> 3
      [] c = "4" -> 4 [] c = "5" -> 5 [] c = "6" -> 6 [] c = "7" -> 7
      [] c = "8" -> 8 [] c = "9" -> 9

RECURSIVE DecVal(_)
DecVal(ds) == IF ds = <<>> THEN 0 ELSE 10 * DecVal(SubSeq(ds, 1, Len(ds) - 1)) + DigitVal(ds[Len(ds)])

RECURSIVE Pow10(_)
Pow10(n) == IF n = 0 THEN 1 ELSE 10 * Pow10(n - 1)

AllIn(s, chars) == \A i \in 1..Len(s) : s[i] \in chars

SeqsUpTo(A, n) == UNION {[1..k -> A] : k \in 0..n}

(***************************************************************************)
(* StringEnvVariable, IntegerEnvVariable, FloatEnvVariable.                *)
(***************************************************************************)
StringConvert(value) == Return(Str(value))

\* int(str): surrounding whitespace ignored, then decimal digits
IntegerConvert(value) ==
    LET body == strip(value, Whitespace) IN
    IF body # <<>> /\ AllIn(body, Digits)
    THEN Return(PyInt(DecVal(body)))
    ELSE Raise("ValueError")

\* float(str): digits with at most one point and at least one digit; the
\* value is kept as a multiple of 10^-MaxScalarLen
FloatConvert(value) ==
    LET body == strip(value, Whitespace)
        dots == {i \in 1..Len(body) : body[i] = "."}
        dot  == IF dots = {} THEN Len(body) + 1 ELSE CHOOSE i \in dots : TRUE
        ip   == SubSeq(body, 1, dot - 1)
        fp   == SubSeq(body, dot + 1, Len(body))
    IN  IF /\ Cardinality(dots) <= 1
           /\ AllIn(ip, Digits) /\ AllIn(fp, Digits)
           /\ Len(ip) + Len(fp) > 0
        THEN Return(PyFloat(DecVal(ip) * Pow10(MaxScalarLen)
                            + DecVal(fp) * Pow10(MaxScalarLen - Len(fp))))
        ELSE Raise("ValueError")

(***************************************************************************)
(* BooleanEnvVariable.                                                     *)
(***************************************************************************)
DefaultTruthy == << <<"T","R","U","E">>, <<"T","r","u","e">>, <<"t","r","u","e">>,
                    <<"T">>, <<"t">>, <<"1">> >>
DefaultFalsy == << <<"F","A","L","S","E">>, <<"F","a","l","s","e">>,
                   <<"f","a","l","s","e">>, <<"F">>, <<"f">>, <<"0">> >>

In(x, tuple) == \E i \in 1..Len(tuple) : tuple[i] = x

\* convert, were the value compared as it is
BooleanConvert_unstripped(value, truthy, falsy) ==
    IF In(value, truthy) THEN Return(Bool(TRUE))
    ELSE IF In(value, falsy) THEN Return(Bool(FALSE))
    ELSE Raise("ValueError")

BooleanConvert(value, truthy, falsy) ==
    LET cleaned == strip(value, Whitespace) IN
    IF In(cleaned, truthy) THEN Return(Bool(TRUE))
    ELSE IF In(cleaned, falsy) THEN Return(Bool(FALSE))
    ELSE Raise("ValueError")

(***************************************************************************)
(* ast.literal_eval, for the source texts convert gives it: the tuple-like *)
(* text assembled by _parse and the two-character bracket probe.  The      *)
(* texts hold no line break and no character outside the sets below.       *)
(***************************************************************************)
Quotes == {"\"", "'"}
OpChars == {"(", ")", "[", "]", "{", "}", ",", ":"}
OctDigits == {"0", "1", "2", "3", "4", "5", "6", "7"}

\* the characters with code points 32 to 126
Ascii ==
    <<" ", "!", "\"", "#", "$", "%", "&", "'", "(", ")", "*", "+", ",", "-", ".", "/",
      "0", "1", "2", "3", "4", "5", "6", "7", "8", "9", ":", ";", "<", "=", ">", "?",
      "@", "A", "B", "C", "D", "E", "F", "G", "H", "I", "J", "K", "L", "M", "N", "O",
      "P", "Q", "R", "S", "T", "U", "V", "W", "X", "Y", "Z", "[", "\\", "]", "^", "_",
      "\\x96", "a", "b", "c", "d", "e", "f", "g", "h", "i", "j", "k", "l", "m", "n", "o",
      "p", "q", "r", "s", "t", "u", "v", "w", "x", "y", "z", "{", "|", "}", "~">>

\* chr(n)
Chr(n) ==
    IF n \in 32..126 THEN Ascii[n - 31]
    ELSE CASE n = 9 -> "\t" [] n = 10 -> "\n" [] n = 12 -> "\f" [] n = 13 -> "\r"
           [] OTHER -> "\\x" \o ToString(n)

SimpleEscape(c) ==
    Chr(CASE c = "a" -> 7 [] c = "b" -> 8 [] c = "f" -> 12 [] c = "n" -> 10
          [] c = "r" -> 13 [] c = "t" -> 9 [] c = "v" -> 11)

RECURSIVE TakeWhile(_, _)
TakeWhile(s, chars) ==
    IF s # <<>> /\ Head(s) \in chars THEN <<Head(s)>> \o TakeWhile(Tail(s), chars) ELSE <<>>

RECURSIVE OctVal(_)
OctVal(ds) == IF ds = <<>> THEN 0 ELSE 8 * OctVal(SubSeq(ds, 1, Len(ds) - 1)) + DigitVal(ds[Len(ds)])

Drop(s, n) == SubSeq(s, n + 1, Len(s))

\* the body of a string literal after its opening quote q: the decoded
\* characters up to the first quote q that no backslash escapes
RECURSIVE ScanString(_, _, _)
ScanString(s, q, acc) ==
    IF s = <<>> THEN [ok |-> FALSE, val |-> <<>>, rest |-> <<>>]
    ELSE IF Head(s) = q THEN [ok |-> TRUE, val |-> acc, rest |-> Tail(s)]
    ELSE IF Head(s) # "\\" THEN ScanString(Tail(s), q, Append(acc, Head(s)))
    ELSE IF Len(s) = 1 THEN [ok |-> FALSE, val |-> <<>>, rest |-> <<>>]
    ELSE LET c == s[2] IN
         IF c \in Quotes \cup {"\\"} THEN ScanString(Drop(s, 2), q, Append(acc, c))
         ELSE IF c \in {"a", "b", "f", "n", "r", "t", "v"}
              THEN ScanString(Drop(s, 2), q, Append(acc, SimpleEscape(c)))
         ELSE IF c \in OctDigits
              THEN LET ds == TakeWhile(SubSeq(s, 2, IF Len(s) < 4 THEN Len(s) ELSE 4), OctDigits)
                   IN  ScanString(Drop(s, 1 + Len(ds)), q, Append(acc, Chr(OctVal(ds))))
         ELSE IF c \in {"x", "N", "u", "U"}
              THEN [ok |-> FALSE, val |-> <<>>, rest |-> <<>>]
         ELSE ScanString(Drop(s, 2), q, acc \o <<"\\", c>>)

\* the tokenizer; ok is FALSE where it raises SyntaxError
RECURSIVE Lex(_, _)
Lex(s, toks) ==
    IF s = <<>> THEN [ok |-> TRUE, toks |-> toks]
    ELSE LET c == Head(s) IN
         IF c \in {" ", "\t", "\f"} THEN Lex(Tail(s), toks)
         ELSE IF c = "#" THEN [ok |-> TRUE, toks |-> toks]
         ELSE IF c \in Quotes
              THEN LET r == ScanString(Tail(s), c, <<>>) IN
                   IF r.ok THEN Lex(r.rest, Append(toks, [k |-> "STRING", data |-> r.val]))
                   ELSE [ok |-> FALSE, toks |-> toks]
         ELSE IF c \in Digits
              THEN LET ds == TakeWhile(s, Digits)
                       rest == Drop(s, Len(ds))
                   IN  IF \/ (rest # <<>> /\ Head(rest) \in Letters \cup {"_", "."})
                          \/ (Head(ds) = "0" /\ ~AllIn(ds, {"0"}))
                       THEN [ok |-> FALSE, toks |-> toks]
                       ELSE Lex(rest, Append(toks, [k |-> "NUMBER", data |-> ds]))
         ELSE IF c \in Letters \cup {"_"}
              THEN LET name == TakeWhile(s, Letters \cup Digits \cup {"_"})
                   IN  Lex(Drop(s, Len(name)), Append(toks, [k |-> "NAME", data |-> name]))
         ELSE IF c \in OpChars THEN Lex(Tail(s), Append(toks, [k |-> "OP", data |-> <<c>>]))
         ELSE [ok |-> FALSE, toks |-> toks]

\* what ast.literal_eval refuses after a successful parse
Malformed == [type |-> "malformed", data |-> <<>>]
Unhashable == [type |-> "unhashable", data |-> <<>>]

PFail == [ok |-> FALSE, val |-> None, i |-> 0, items |-> <<>>, trailing |-> FALSE]
POk(val, i) == [ok |-> TRUE, val |-> val, i |-> i, items |-> <<>>, trailing |-> FALSE]

IsOp(ts, i, c) == i <= Len(ts) /\ ts[i].k = "OP" /\ ts[i].data = <<c>>

Closer(open) == CASE open = "(" -> ")" [] open = "[" -> "]" [] open = "{" -> "}"

HasT(items, tags) == \E j \in 1..Len(items) : items[j].type \in tags

Range(f) == {f[x] : x \in DOMAIN f}

DictSet(d, key, val) == [x \in DOMAIN d \cup {key} |-> IF x = key THEN val ELSE d[x]]

RECURSIVE DictOf(_, _)
DictOf(pairs, d) ==
    IF pairs = <<>> THEN d ELSE DictOf(Tail(pairs), DictSet(d, pairs[1].data[1], pairs[1].data[2]))

\* the value of a display from its items (an item "key: value" is a "pair")
Display(open, items, trailing) ==
    LET plain == [j \in 1..Len(items) |-> IF items[j].type = "pair" THEN items[j].data[1] ELSE items[j]]
        inner == plain \o [j \in 1..Len(items) |-> IF items[j].type = "pair" THEN items[j].data[2] ELSE items[j]]
        bad   == IF HasT(inner, {"malformed"}) THEN Malformed
                 ELSE IF HasT(inner, {"unhashable"}) THEN Unhashable
                 ELSE None
    IN  IF bad # None THEN bad
        ELSE IF open = "(" THEN
             IF Len(items) = 1 /\ ~trailing THEN items[1] ELSE [type |-> "tuple", data |-> items]
        ELSE IF open = "[" THEN [type |-> "list", data |-> items]
        ELSE IF HasT(plain, {"list", "set", "dict"}) THEN Unhashable
        ELSE IF items = <<>> \/ HasT(items, {"pair"}) THEN [type |-> "dict", data |-> DictOf(items, <<>>)]
        ELSE [type |-> "set", data |-> Range(items)]

RECURSIVE ParseAtom(_, _)
RECURSIVE ParsePrimary(_, _)
RECURSIVE ParseTrailers(_, _)
RECURSIVE ParseMore(_, _, _, _)
RECURSIVE ParseStrings(_, _, _)
RECURSIVE ParseItems(_, _, _, _)

\* adjacent string literals are concatenated
ParseStrings(ts, i, acc) ==
    IF i <= Len(ts) /\ ts[i].k = "STRING"
    THEN ParseStrings(ts, i + 1, acc \o ts[i].data)
    ELSE POk(Str(acc), i)

\* a key, a colon and a value make one item of a dict display
PairOf(e, v) ==
    IF v.ok THEN POk([type |-> "pair", data |-> <<e.val, v.val>>], v.i) ELSE PFail

\* one item, e being the expression it starts with
ParseElement(ts, close, e) ==
    IF e.ok /\ close = "}" /\ IsOp(ts, e.i, ":")
    THEN PairOf(e, ParsePrimary(ts, e.i + 1))
    ELSE e

\* a display holds pairs only or no pair
Mixed(close, all) ==
    close = "}" /\ HasT(all, {"pair"}) /\ \E j \in 1..Len(all) : all[j].type # "pair"

\* the items of a display or of the expression list: close is the closing
\* bracket, "" at the top level, where the end of the text closes the list
ParseItems(ts, i, close, acc) ==
    IF (close = "" /\ i > Len(ts) /\ acc # <<>>) \/ (close # "" /\ IsOp(ts, i, close))
    THEN [ok |-> TRUE, val |-> None, i |-> i + 1, items |-> acc, trailing |-> acc # <<>>]
    ELSE ParseMore(ts, close, acc, ParseElement(ts, close, ParsePrimary(ts, i)))

\* what follows the item it: a comma and more items, or the end
ParseMore(ts, close, acc, it) ==
    IF ~it.ok THEN PFail
    ELSE IF Mixed(close, Append(acc, it.val)) THEN PFail
    ELSE IF IsOp(ts, it.i, ",") THEN ParseItems(ts, it.i + 1, close, Append(acc, it.val))
    ELSE IF (close = "" /\ it.i > Len(ts)) \/ (close # "" /\ IsOp(ts, it.i, close))
         THEN [ok |-> TRUE, val |-> None, i |-> it.i + 1,
               items |-> Append(acc, it.val), trailing |-> FALSE]
    ELSE PFail

Displayed(open, d) ==
    IF d.ok THEN POk(Display(open, d.items, d.trailing), d.i) ELSE PFail

ParseAtom(ts, i) ==
    IF i > Len(ts) THEN PFail
    ELSE IF ts[i].k = "STRING" THEN ParseStrings(ts, i + 1, ts[i].data)
    ELSE IF ts[i].k = "NUMBER" THEN POk(PyInt(DecVal(ts[i].data)), i + 1)
    ELSE IF ts[i].k = "NAME" THEN POk(Malformed, i + 1)
    ELSE IF ts[i].data[1] \in {"(", "[", "{"}
         THEN Displayed(ts[i].data[1],
                        ParseItems(ts, i + 1, Closer(ts[i].data[1]), <<>>))
    ELSE PFail

\* a call or a subscript parses, and is no literal
Trailed(open, d) ==
    IF d.ok /\ (open = "(" \/ d.items # <<>>) THEN POk(Malformed, d.i) ELSE PFail

ParseTrailers(ts, p) ==
    IF p.ok /\ (IsOp(ts, p.i, "(") \/ IsOp(ts, p.i, "["))
    THEN ParseTrailers(ts, Trailed(ts[p.i].data[1],
                                   ParseItems(ts, p.i + 1, Closer(ts[p.i].data[1]), <<>>)))
    ELSE p

ParsePrimary(ts, i) == ParseTrailers(ts, ParseAtom(ts, i))

\* the value of the parsed expression, or why it is no literal
Evaluated(val) ==
    IF val.type = "malformed" THEN Raise("ValueError")
    ELSE IF val.type = "unhashable" THEN Raise("TypeError")
    ELSE Return(val)

EvalParsed(p) ==
    IF ~p.ok THEN Raise("SyntaxError") ELSE Evaluated(Display("(", p.items, p.trailing))

EvalTokens(lx) ==
    IF ~lx.ok THEN Raise("SyntaxError") ELSE EvalParsed(ParseItems(lx.toks, 1, "", <<>>))

literal_eval(source) == EvalTokens(Lex(lstrip(source, {" ", "\t"}), <<>>))

(***************************************************************************)
(* CollectionEnvVariable.                                                  *)
(***************************************************************************)
_BRACKETS == {"{", "}", "(", ")", "[", "]"}
_DEFAULT_CONVERT_COLLECTION_TYPE == Type("list")

_clean_split(value) == split(strip(strip(value, Whitespace), _BRACKETS))

_wrap_with_quotes(value) ==
    LET escaped == replace(replace(strip(value, Whitespace), "'", <<"\\", "'">>),
                           "\"", <<"\\", "\"">>)
        cut == IF endswith(escaped, <<",">>) THEN SubSeq(escaped, 1, Len(escaped) - 1)
               ELSE escaped
        inner == IF /\ \/ startswith(cut, <<"\\", "\"">>) /\ endswith(cut, <<"\\", "\"">>)
                       \/ startswith(cut, <<"\\", "'">>) /\ endswith(cut, <<"\\", "'">>)
                    /\ Len(cut) # 2
                 THEN SubSeq(cut, 3, Len(cut) - 2)
                 ELSE cut
    IN  <<"\"">> \o inner \o <<"\"">>

_parse(value) ==
    LET values == _clean_split(value)
        wrapped == [idx \in 1..Len(values) |-> _wrap_with_quotes(values[idx])]
    IN  <<"(">> \o join(<<",", " ">>, wrapped) \o <<",", ")">>

\* iter(x) for the values literal_eval makes of a text opening with "("
Iterable(x) == x.type \in {"str", "tuple", "list"}
Items(x) == IF x.type = "str" THEN [j \in 1..Len(x.data) |-> Str(<<x.data[j]>>)] ELSE x.data

\* list(x), tuple(x), set(x)
Construct(type, x) ==
    IF ~Iterable(x) THEN Raise("TypeError")
    ELSE IF type = Type("set")
         THEN IF HasT(Items(x), {"list", "set", "dict"}) THEN Raise("TypeError")
              ELSE Return([type |-> "set", data |-> Range(Items(x))])
    ELSE Return([type |-> type.data[1], data |-> Items(x)])

\* the loop of _try_to_dict over the pairs from index idx on
\* the loop of _try_to_dict, were the value of a pair left unchecked
RECURSIVE _try_to_dict_from_keys_only(_, _, _)
_try_to_dict_from_keys_only(items, idx, as_dict) ==
    IF idx > Len(items) THEN Return([type |-> "dict", data |-> as_dict])
    ELSE IF items[idx].type # "str" THEN Raise("AttributeError")
    ELSE IF ~endswith(items[idx].data, <<":">>) THEN Raise("ValueError")
    ELSE _try_to_dict_from_keys_only(items, idx + 2,
             DictSet(as_dict,
                     Str(strip(strip(SubSeq(items[idx].data, 1, Len(items[idx].data) - 1),
                                     {"\""}), {"'"})),
                     items[idx + 1]))

\* the loop of _try_to_dict over the pairs from index idx on
RECURSIVE _try_to_dict_from(_, _, _)
_try_to_dict_from(items, idx, as_dict) ==
    IF idx > Len(items) THEN Return([type |-> "dict", data |-> as_dict])
    ELSE LET k == items[idx]
             v == items[idx + 1]
         IN  IF k.type # "str" THEN Raise("AttributeError")
             ELSE IF ~endswith(k.data, <<":">>) THEN Raise("ValueError")
             ELSE IF v.type # "str" THEN Raise("AttributeError")
             ELSE IF endswith(v.data, <<":">>) THEN Raise("ValueError")
             ELSE _try_to_dict_from(items, idx + 2,
                      DictSet(as_dict,
                              Str(strip(strip(SubSeq(k.data, 1, Len(k.data) - 1), {"\""}), {"'"})),
                              v))

_try_to_dict(coll) ==
    IF ~Iterable(coll) THEN Raise("TypeError")
    ELSE IF Len(Items(coll)) % 2 # 0 THEN Raise("ValueError")
    ELSE _try_to_dict_from(Items(coll), 1, <<>>)

\* the cast, were a mapping tried before any configured type
_to_expected_type_mapping_first(value, coll, type) ==
    IF _try_to_dict(coll).tag = "return" THEN _try_to_dict(coll)
    ELSE IF Construct(type, coll).tag = "raise" THEN Raise("ValueError")
    ELSE Construct(type, coll)

\* except (ValueError, TypeError): raise ValueError
Narrowed(r) ==
    IF r.tag = "raise" /\ r.val.data[1] \in {"ValueError", "TypeError"}
    THEN Raise("ValueError")
    ELSE r

_to_expected_type(value, coll, type) ==
    Narrowed(IF type = Type("dict") THEN _try_to_dict(coll) ELSE Construct(type, coll))

\* type(ast.literal_eval(first + last)), the default where that fails or is no
\* collection
TypeOfProbe(probe) ==
    IF probe.tag = "raise" THEN _DEFAULT_CONVERT_COLLECTION_TYPE
    ELSE IF probe.val.type \notin {"list", "tuple", "set", "dict"}
         THEN _DEFAULT_CONVERT_COLLECTION_TYPE
    ELSE IF probe.val.type = "dict" THEN Type("set")
    ELSE Type(probe.val.type)

Determined(probe) ==
    IF probe.tag = "raise"
       /\ probe.val.data[1] \notin {"ValueError", "SyntaxError", "IndexError"}
    THEN probe
    ELSE Return(TypeOfProbe(probe))

FirstLast(as_str) ==
    IF as_str = <<>> THEN Raise("IndexError")
    ELSE literal_eval(<<as_str[1], as_str[Len(as_str)]>>)

\* the type the first and last characters of the stripped value stand for
DeterminedType(value) == Determined(FirstLast(strip(value, Whitespace)))

ToDetermined(coll, d, t) ==
    IF ~(d.tag = "raise" /\ d.val.data[1] = "ValueError") THEN d
    ELSE IF t.tag = "raise" THEN t
    ELSE Construct(t.val, coll)

_to_determined_type(value, coll) ==
    ToDetermined(coll, _try_to_dict(coll), DeterminedType(value))

\* convert once ast.literal_eval has produced evaluated
CollectionConvertOf(value, evaluated, type) ==
    IF evaluated.tag = "raise" THEN evaluated
    ELSE IF type # Ellipsis THEN _to_expected_type(value, evaluated.val, type)
    ELSE _to_determined_type(value, evaluated.val)

CollectionConvert(value, type) ==
    CollectionConvertOf(value, literal_eval(_parse(value)), type)

(***************************************************************************)
(* datetime.datetime.strptime, for formats made of the directives %Y %y %m *)
(* %d %H %M %S %f, spaces and other literal characters.                    *)
(***************************************************************************)
NoMatch == [ok |-> FALSE, n |-> 0, rest |-> <<>>]
Took(s, k) == [ok |-> TRUE, n |-> DecVal(SubSeq(s, 1, k)), rest |-> Drop(s, k)]

At(s, i, chars) == Len(s) >= i /\ s[i] \in chars

\* the regular expression of each directive, alternatives in its order
Directive(d, s) ==
    CASE d = "Y" -> IF \A i \in 1..4 : At(s, i, Digits) THEN Took(s, 4) ELSE NoMatch
      [] d = "y" -> IF \A i \in 1..2 : At(s, i, Digits) THEN Took(s, 2) ELSE NoMatch
      [] d = "m" -> IF At(s, 1, {"1"}) /\ At(s, 2, {"0", "1", "2"}) THEN Took(s, 2)
                    ELSE IF At(s, 1, {"0"}) /\ At(s, 2, Digits \ {"0"}) THEN Took(s, 2)
                    ELSE IF At(s, 1, Digits \ {"0"}) THEN Took(s, 1)
                    ELSE NoMatch
      [] d = "d" -> IF At(s, 1, {"3"}) /\ At(s, 2, {"0", "1"}) THEN Took(s, 2)
                    ELSE IF At(s, 1, {"1", "2"}) /\ At(s, 2, Digits) THEN Took(s, 2)
                    ELSE IF At(s, 1, {"0"}) /\ At(s, 2, Digits \ {"0"}) THEN Took(s, 2)
                    ELSE IF At(s, 1, Digits \ {"0"}) THEN Took(s, 1)
                    ELSE IF At(s, 1, {" "}) /\ At(s, 2, Digits \ {"0"})
                         THEN [ok |-> TRUE, n |-> DigitVal(s[2]), rest |-> Drop(s, 2)]
                    ELSE NoMatch
      [] d = "H" -> IF At(s, 1, {"2"}) /\ At(s, 2, {"0", "1", "2", "3"}) THEN Took(s, 2)
                    ELSE IF At(s, 1, {"0", "1"}) /\ At(s, 2, Digits) THEN Took(s, 2)
                    ELSE IF At(s, 1, Digits) THEN Took(s, 1)
                    ELSE NoMatch
      [] d = "M" -> IF At(s, 1, {"0", "1", "2", "3", "4", "5"}) /\ At(s, 2, Digits) THEN Took(s, 2)
                    ELSE IF At(s, 1, Digits) THEN Took(s, 1)
                    ELSE NoMatch
      [] d = "S" -> IF At(s, 1, {"6"}) /\ At(s, 2, {"0", "1"}) THEN Took(s, 2)
                    ELSE IF At(s, 1, {"0", "1", "2", "3", "4", "5"}) /\ At(s, 2, Digits) THEN Took(s, 2)
                    ELSE IF At(s, 1, Digits) THEN Took(s, 1)
                    ELSE NoMatch
      [] d = "f" -> LET ds == TakeWhile(SubSeq(s, 1, IF Len(s) < 6 THEN Len(s) ELSE 6), Digits)
                    IN  IF ds = <<>> THEN NoMatch
                        ELSE [ok |-> TRUE, n |-> DecVal(ds) * Pow10(6 - Len(ds)),
                              rest |-> Drop(s, Len(ds))]

\* the fields strptime starts from
Epoch == [Y |-> 1900, m |-> 1, d |-> 1, H |-> 0, M |-> 0, S |-> 0, f |-> 0]

IsLeap(year) == year % 4 = 0 /\ (year % 100 # 0 \/ year % 400 = 0)

DaysInMonth(year, month) ==
    IF month = 2 THEN (IF IsLeap(year) THEN 29 ELSE 28)
    ELSE IF month \in {4, 6, 9, 11} THEN 30 ELSE 31

\* the checks of the datetime constructor
ValidFields(x) ==
    /\ x.Y \in 1..9999
    /\ x.m \in 1..12
    /\ x.d \in 1..DaysInMonth(x.Y, x.m)
    /\ x.H \in 0..23 /\ x.M \in 0..59 /\ x.S \in 0..59 /\ x.f \in 0..999999

Datetime(x) == [type |-> "datetime", data |-> <<x.Y, x.m, x.d, x.H, x.M, x.S, x.f>>]
DateOf(dt) == [type |-> "date", data |-> SubSeq(dt.data, 1, 3)]
TimeOf(dt) == [type |-> "time", data |-> SubSeq(dt.data, 4, 7)]

\* the match of data against the rest of the format, fields found so far in x
RECURSIVE Match(_, _, _)
Match(data, fmt, x) ==
    IF fmt = <<>> THEN [ok |-> data = <<>>, x |-> x]
    ELSE IF Head(fmt) = "%" /\ Len(fmt) >= 2
         THEN LET r == Directive(fmt[2], data)
                  y == IF fmt[2] = "y"
                       THEN [x EXCEPT !.Y = IF r.n < 69 THEN 2000 + r.n ELSE 1900 + r.n]
                       ELSE [x EXCEPT ![fmt[2]] = r.n]
              IN  IF r.ok THEN Match(r.rest, Drop(fmt, 2), y) ELSE [ok |-> FALSE, x |-> x]
    ELSE IF Head(fmt) \in Whitespace
         THEN IF data # <<>> /\ Head(data) \in Whitespace
              THEN Match(lstrip(data, Whitespace), lstrip(fmt, Whitespace), x)
              ELSE [ok |-> FALSE, x |-> x]
    ELSE IF data # <<>> /\ Head(data) = Head(fmt)
         THEN Match(Tail(data), Tail(fmt), x)
    ELSE [ok |-> FALSE, x |-> x]

strptime(data, fmt) ==
    LET r == Match(data, fmt, Epoch) IN
    IF r.ok /\ ValidFields(r.x) THEN Return(Datetime(r.x)) ELSE Raise("ValueError")

(***************************************************************************)
(* DateTimeEnvVariable.                                                    *)
(***************************************************************************)
FmtDate == <<"%", "Y", "-", "%", "m", "-", "%", "d">>
FmtTime == <<"%", "H", ":", "%", "M", ":", "%", "S">>
FmtTimeFull == FmtTime \o <<".", "%", "f">>

_DEFAULT_DATE_FORMATS == <<FmtDate>>
_DEFAULT_TIME_FORMATS == <<FmtTime, FmtTimeFull>>

_get_default_dt_date ==
    DateOf(strptime(<<"1", ":", "2", ":", "3", ".", "4", "5", "6", "7", "8", "9">>,
                    FmtTimeFull).val)

\* the default time, were it taken from the time-only text
_get_default_dt_time_of_time ==
    TimeOf(strptime(<<"1", ":", "2", ":", "3", ".", "4", "5", "6", "7", "8", "9">>,
                    FmtTimeFull).val)

_get_default_dt_time ==
    TimeOf(strptime(<<"2", "0", "0", "0", "-", "3", "-", "1">>, FmtDate).val)

\* the association, were the time compared before the date
_associate_time_first(dt) ==
    IF TimeOf(dt) = _get_default_dt_time THEN DateOf(dt)
    ELSE IF DateOf(dt) = _get_default_dt_date THEN TimeOf(dt)
    ELSE dt

_associate_datetime_with_type(dt) ==
    IF DateOf(dt) = _get_default_dt_date THEN TimeOf(dt)
    ELSE IF TimeOf(dt) = _get_default_dt_time THEN DateOf(dt)
    ELSE dt

\* the formats, were the default ones tried after the configured one
_get_formats_iterator_then_defaults(format) ==
    (IF format # Ellipsis THEN <<format.data>> ELSE <<>>)
    \o _DEFAULT_TIME_FORMATS
    \o _DEFAULT_DATE_FORMATS
    \o [j \in 1..(Len(_DEFAULT_DATE_FORMATS) * Len(_DEFAULT_TIME_FORMATS)) |->
           _DEFAULT_DATE_FORMATS[((j - 1) \div Len(_DEFAULT_TIME_FORMATS)) + 1]
           \o <<" ">>
           \o _DEFAULT_TIME_FORMATS[((j - 1) % Len(_DEFAULT_TIME_FORMATS)) + 1]]

_get_formats_iterator(format) ==
    IF format # Ellipsis THEN <<format.data>>
    ELSE _DEFAULT_TIME_FORMATS
         \o _DEFAULT_DATE_FORMATS
         \o [j \in 1..(Len(_DEFAULT_DATE_FORMATS) * Len(_DEFAULT_TIME_FORMATS)) |->
                _DEFAULT_DATE_FORMATS[((j - 1) \div Len(_DEFAULT_TIME_FORMATS)) + 1]
                \o <<" ">>
                \o _DEFAULT_TIME_FORMATS[((j - 1) % Len(_DEFAULT_TIME_FORMATS)) + 1]]

\* the loop of convert over the formats from index j on
RECURSIVE DateTimeConvertFrom(_, _, _)
DateTimeConvertFrom(value, formats, j) ==
    IF j > Len(formats) THEN Raise("ValueError")
    ELSE LET r == strptime(value, formats[j]) IN
         IF r.tag = "return" THEN Return(_associate_datetime_with_type(r.val))
         ELSE DateTimeConvertFrom(value, formats, j + 1)

DateTimeConvert(value, format) ==
    DateTimeConvertFrom(value, _get_formats_iterator(format), 1)

(***************************************************************************)
(* EnvVariable (gnvext.converters.base): fetch and the value property.     *)
(***************************************************************************)
\* os.getenv(name): None for an unset variable
fetch(env) == IF env = MISSING THEN None ELSE env

\* value, were a failed conversion to fall back on the default
value_fallback(raw, dflt, converted) ==
    IF raw = None
    THEN IF IsException(dflt) THEN [tag |-> "raise", val |-> dflt] ELSE Return(dflt)
    ELSE IF converted.tag = "raise" THEN Return(dflt) ELSE converted

\* value, were every default returned
value_returning(raw, dflt, converted) ==
    IF raw = None THEN Return(dflt) ELSE converted

\* the value property; converted is what self.convert(raw) does
value(raw, dflt, converted) ==
    IF raw = None
    THEN IF IsException(dflt) THEN [tag |-> "raise", val |-> dflt] ELSE Return(dflt)
    ELSE converted

\* self.convert of each class, evaluated being CollectionEnvVariable's
\* ast.literal_eval(tuple_like_string)
Convert(class, raw, attrs, evaluated) ==
    CASE class = "StringEnvVariable" -> StringConvert(raw)
      [] class = "IntegerEnvVariable" -> IntegerConvert(raw)
      [] class = "FloatEnvVariable" -> FloatConvert(raw)
      [] class = "BooleanEnvVariable" ->
            BooleanConvert(raw, attrs.truthy_values, attrs.falsy_values)
      [] class = "CollectionEnvVariable" ->
            CollectionConvertOf(raw, evaluated, attrs.convert_collection_type)
      [] class = "DateTimeEnvVariable" -> DateTimeConvert(raw, attrs.datetime_format)

(***************************************************************************)
(* The test suites: the converter classes, defaults, contexts and          *)
(* environment values each one draws its cases from.                       *)
(***************************************************************************)
Classes == {"StringEnvVariable", "IntegerEnvVariable", "FloatEnvVariable",
            "BooleanEnvVariable", "CollectionEnvVariable", "DateTimeEnvVariable"}

\* the attributes as the classes define them
ClassAttrs == [truthy_values |-> DefaultTruthy,
               falsy_values |-> DefaultFalsy,
               convert_collection_type |-> Ellipsis,
               datetime_format |-> Ellipsis]

Attrs == [truthy_values |-> truthy_values,
          falsy_values |-> falsy_values,
          convert_collection_type |-> convert_collection_type,
          datetime_format |-> datetime_format]

Defaults ==
    {None, Str(<<"a", "b", "c", "d">>), PyInt(10), PyFloat(17400), Bool(TRUE),
     [type |-> "tuple", data |-> <<PyInt(1), PyInt(2), PyInt(3)>>],
     ExcClass("KeyError"), ExcClass("TypeError"),
     ExcInstance("TypeError"), ExcInstance("ValueError")}

TruthyChoices ==
    {DefaultTruthy,
     << <<"T","R","U","E">>, <<"T","r","u","e">>, <<"t","r","u","e">>, <<"1">> >>,
     << <<"t","r","u","e">>, <<"1">> >>,
     << <<"Y","e","s">>, <<"y","e","s">>, <<"1">> >>,
     << <<"1">>, <<"0">> >>}

FalsyChoices ==
    {DefaultFalsy,
     << <<"F","A","L","S","E">>, <<"F","a","l","s","e">>, <<"f","a","l","s","e">>, <<"0">> >>,
     << <<"f","a","l","s","e">>, <<"0">> >>,
     << <<"N","o">>, <<"n","o">>, <<"0">> >>}

FmtDate2 == <<"%", "y", "-", "%", "m", "-", "%", "d">>

ExplicitFormats ==
    {FmtDate \o <<" ">> \o FmtTime,
     FmtDate2 \o <<" ">> \o FmtTime,
     FmtDate2 \o <<" ">> \o FmtTimeFull,
     <<"%", "Y">>}

Contexts(s) ==
    CASE s = "boolean" ->
            {[ClassAttrs EXCEPT !.truthy_values = tv, !.falsy_values = fv] :
                tv \in TruthyChoices, fv \in FalsyChoices} \ {ClassAttrs}
      [] s = "collection" ->
            {[ClassAttrs EXCEPT !.convert_collection_type = Type(n)] :
                n \in {"list", "tuple", "set", "dict"}}
      [] s = "datetime" ->
            {[ClassAttrs EXCEPT !.datetime_format = Str(f)] : f \in ExplicitFormats}
      [] s = "contract" ->
            {[ClassAttrs EXCEPT !.convert_collection_type = Type("tuple"),
                                !.truthy_values = << <<"1">>, <<"0">> >>,
                                !.datetime_format = Str(<<"%", "Y">>)]}

SuiteClasses(s) ==
    CASE s = "boolean" -> {"BooleanEnvVariable"}
      [] s = "collection" -> {"CollectionEnvVariable"}
      [] s = "datetime" -> {"DateTimeEnvVariable"}
      [] s = "contract" -> Classes

SuiteDefaults(s) == IF s = "contract" THEN Defaults ELSE {None}

ScalarAlphabet == {"0", "1", ".", " ", "t"}
BoolAlphabet == {"t", "T", "f", "1", "0", " ", "\t"}
CollAlphabet == {"a", "1", ":", ",", "\"", "'", "[", "]", "(", ")", "{", "}", " "}
LitAlphabet == {"\\", "\"", " ", ",", ")", "#", "1"}

RECURSIVE Spaces(_)
Spaces(n) == IF n = 0 THEN <<>> ELSE <<" ">> \o Spaces(n - 1)

BoolWords == UNION {Range(tv) : tv \in TruthyChoices} \cup UNION {Range(fv) : fv \in FalsyChoices}

BoolRaws ==
    SeqsUpTo(BoolAlphabet, MaxBoolLen)
    \cup {Spaces(i) \o w \o Spaces(j) : w \in BoolWords, i \in 0..MaxPad, j \in 0..MaxPad}

\* the values of TestCollectionEnvVariable.TESTCASES
TestVectors ==
    {<<"v", "a", "l", "1", ",", " ", "v", "a", "l", "2", ",", " ", "v", "a", "l", "3">>,
     <<"[", "v", "a", "l", "1", ",", " ", "v", "a", "l", "2", "]">>,
     <<"[", "v", "a", "l", "1", ",", " ", "v", "a", "l", "2", ",", "]">>,
     <<"(", "v", "a", "l", "1", ",", " ", "v", "a", "l", "2", ",", ")">>,
     <<"v", "a", "l", "1", ",", " ", "v", "a", "l", "2", " ", "v", "a", "l", "3">>,
     <<"\"", "v", "a", "l", "1", "\"", ",", " ", "\"", "v", "a", "l", "2", "\"", ",", " ", "\"", "v", "a", "l", "3", "\"">>,
     <<" ", " ", "[", "a", "b", "c", "d", "]", " ", " ", " ", " ">>,
     <<" ", "[", "\"", "a", "b", "c", "d", "\"", ",", " ", "'", "a", "b", "c", "'", ",", " ", "\"", " ", "'", "]", " ">>,
     <<" ", "\"", "a", "b", "c", "d", "\"", ",", " ", "\"", "'", "\"", ",", " ", "'", "\"", "'", ",", " ", "b", " ">>,
     <<" ", "[", " ", "a", "b", ",", "c", "d", ",", ",", "a", "b", "c", "d", ",", " ", "\"", "v", "a", "l", "2", "\"", " ", " ", "]", " ", " ">>,
     <<"{", "\"", "a", "\"", ":", " ", "1", ",", " ", "\"", "b", "\"", ":", " ", "2", "}">>,
     <<"\"", "a", "\"", ":", "1", ",", " ", "\"", "b", "\"", ":", " ", "2">>,
     <<"{", "\"", "a", "\"", ":", " ", "2", ",", " ", "\"", "b", "\"", ":", " ", "4", "}">>,
     <<" ", "{", "\"", "a", "\"", ",", " ", "'", "b", "'", "}">>,
     <<" ", " ", "{", "\"", "a", "b", "\"", ",", " ", "\"", "b", "c", "\"", "}", " ">>,
     <<"(", "\"", "a", "\"", ",", " ", "\"", "b", "\"", ")">>,
     <<"(", "v", "a", "l", ",", ")">>,
     <<"[", "\"", "a", "\"", ",", " ", "\"", "b", "\"", "]">>}

Brackets == {<<>>, <<"[">>, <<"]">>, <<"(">>, <<")">>, <<"{">>, <<"}">>}

TokenVocab ==
    {<<"a">>, <<"a", ":">>, <<"1">>, <<"1", ",">>, <<"\"", "a", "\"", ":">>,
     <<"'", "a", "'", ":">>, <<"\"", "a", "\"", ",">>, <<"'", "b", "'">>, <<":", "a">>}

BracketedRaws ==
    {open \o join(<<" ">>, tokens) \o close :
        open \in Brackets, close \in Brackets, tokens \in SeqsUpTo(TokenVocab, MaxTokens)}

LitVectors ==
    {<<"\\", " ", ",", ")", "#">>,
     <<"\\", " ", ",", "1", ")", "#">>,
     <<"a", ":", " ", "\\", " ", ",", "1", ",", "1", ")", "#">>}

CollRaws ==
    SeqsUpTo(CollAlphabet, MaxCollLen) \cup BracketedRaws \cup TestVectors
    \cup SeqsUpTo(LitAlphabet, MaxLitLen) \cup LitVectors

\* n in decimal, at least width characters
RECURSIVE Decimal(_, _)
Decimal(n, width) ==
    IF n < 10 /\ width <= 1 THEN <<Chr(48 + n)>>
    ELSE Decimal(n \div 10, width - 1) \o <<Chr(48 + (n % 10))>>

Years == {1900, 2024}
Months == {1, 3}
Days == {1, 31}
Hours == {0, 13}
Minutes == {0, 5}
Seconds == {0, 7}
Fractions == {<<"0">>, <<"5">>, <<"0", "0", "0", "0", "0", "0">>, <<"4", "5", "6", "7", "8", "9">>}
Widths == {1, 2}

DateText(y, m, d, w) == Decimal(y, 4) \o <<"-">> \o Decimal(m, w) \o <<"-">> \o Decimal(d, w)
Date2Text(y, m, d, w) == Decimal(y % 100, 2) \o <<"-">> \o Decimal(m, w) \o <<"-">> \o Decimal(d, w)
TimeText(h, mi, sec, w) == Decimal(h, w) \o <<":">> \o Decimal(mi, w) \o <<":">> \o Decimal(sec, w)

DateRaws == {DateText(y, m, d, w) : y \in Years, m \in Months \cup {13}, d \in Days, w \in Widths}
Date2Raws == {Date2Text(y, m, d, 2) : y \in Years, m \in Months, d \in Days}
TimeRaws == {TimeText(h, mi, sec, w) : h \in Hours \cup {24}, mi \in Minutes, sec \in Seconds, w \in Widths}
TimeFullRaws == {t \o <<".">> \o f : t \in TimeRaws, f \in Fractions}

DtRaws ==
    DateRaws \cup TimeRaws \cup TimeFullRaws
    \cup {d \o <<" ">> \o t : d \in DateRaws \cup Date2Raws, t \in TimeRaws \cup TimeFullRaws}
    \cup {Decimal(y, 4) : y \in Years}
    \cup {<<>>, <<"a">>}

ContractRaws ==
    SeqsUpTo(ScalarAlphabet, MaxScalarLen)
    \cup {<<"1", ":", "2", ":", "3">>, <<"2", "0", "2", "4">>,
          <<"2", "0", "2", "4", "-", "3", "-", "1">>, <<"[", "a", ",", " ", "b", "]">>}

Raws(s) ==
    CASE s = "boolean" -> BoolRaws
      [] s = "collection" -> CollRaws
      [] s = "datetime" -> DtRaws
      [] s = "contract" -> ContractRaws

(***************************************************************************)
(* The state machine: a converter is constructed (Init), the environment   *)
(* variable may be set and the context applied, then value is read.        *)
(***************************************************************************)
InitSuite(s) ==
    /\ suite = s
    /\ cls \in SuiteClasses(s)
    /\ default \in SuiteDefaults(s)
    /\ truthy_values = ClassAttrs.truthy_values
    /\ falsy_values = ClassAttrs.falsy_values
    /\ convert_collection_type = ClassAttrs.convert_collection_type
    /\ datetime_format = ClassAttrs.datetime_format
    /\ environ = MISSING
    /\ pc = "setup"
    /\ convert_calls = 0
    /\ collection = NotRun
    /\ outcome = NotRun

\* os.environ[varname] = value
SetEnv ==
    /\ pc = "setup"
    /\ environ = MISSING
    /\ \E r \in Raws(suite) : environ' = Str(r)
    /\ UNCHANGED <<suite, cls, default, truthy_values, falsy_values,
                   convert_collection_type, datetime_format, pc, convert_calls,
                   collection, outcome>>

\* setattr(converter, param, value) for each item of the context
SetAttr ==
    /\ pc = "setup"
    /\ Attrs = ClassAttrs
    /\ \E ctx \in Contexts(suite) :
          /\ truthy_values' = ctx.truthy_values
          /\ falsy_values' = ctx.falsy_values
          /\ convert_collection_type' = ctx.convert_collection_type
          /\ datetime_format' = ctx.datetime_format
    /\ UNCHANGED <<suite, cls, default, environ, pc, convert_calls, collection, outcome>>

\* converter.value
ReadValue ==
    /\ pc = "setup"
    /\ collection' = IF cls = "CollectionEnvVariable" /\ environ # MISSING
                     THEN literal_eval(_parse(environ.data))
                     ELSE NotRun
    /\ outcome' = value(fetch(environ), default,
                        Convert(cls, environ.data, Attrs, collection'))
    /\ convert_calls' = IF fetch(environ) = None THEN convert_calls ELSE convert_calls + 1
    /\ pc' = "done"
    /\ UNCHANGED <<suite, cls, default, truthy_values, falsy_values,
                   convert_collection_type, datetime_format, environ>>

Next == SetEnv \/ SetAttr \/ ReadValue

Spec == InitSuite("contract") /\ [][Next]_vars
SpecBoolean == InitSuite("boolean") /\ [][Next]_vars
SpecCollection == InitSuite("collection") /\ [][Next]_vars
SpecDateTime == InitSuite("datetime") /\ [][Next]_vars

(***************************************************************************)
(* The value property.                                                     *)
(***************************************************************************)
\* what self.convert(raw) does in the state value was read in
Converted == Convert(cls, environ.data, Attrs, collection)

\* C1 as stated: read with the variable unset, value returns the default
\* unchanged, whatever it is, and convert is never invoked; read with the
\* variable set, convert is invoked and its result or error is the outcome.
C1_AsStated ==
    pc = "done" =>
        IF environ = MISSING
        THEN outcome = Return(default) /\ convert_calls = 0
        ELSE outcome = Converted /\ convert_calls = 1

\* C1 amended: read with the variable unset, value returns the default
\* unchanged unless the default is an exception class or instance, which is
\* raised, and convert is never invoked; read with the variable set, convert
\* is invoked once and its result or error is the outcome.
C1_ValueContract ==
    pc = "done" =>
        IF environ = MISSING
        THEN /\ convert_calls = 0
             /\ outcome = IF IsException(default)
                          THEN [tag |-> "raise", val |-> default]
                          ELSE Return(default)
        ELSE outcome = Converted /\ convert_calls = 1

\* a read of an unset variable hands back a tuple default as it is
C1_Witness ==
    /\ pc = "done"
    /\ environ = MISSING
    /\ default.type = "tuple"
    /\ outcome = Return(default)
    /\ convert_calls = 0

\* C9: read with the variable unset and an exception class or instance as
\* the default, value raises that exception, whatever the converter class.
C9_ExceptionDefaultRaised ==
    pc = "done" /\ environ = MISSING /\ IsException(default) =>
        outcome.tag = "raise" /\ outcome.val = default

C9_Witness ==
    /\ pc = "done"
    /\ environ = MISSING
    /\ cls = "DateTimeEnvVariable"
    /\ default = ExcClass("KeyError")
    /\ outcome.tag = "raise"

(***************************************************************************)
(* DateTimeEnvVariable with no datetime_format.                            *)
(***************************************************************************)
DateTimeCandidates == {FmtDate \o <<" ">> \o FmtTime, FmtDate \o <<" ">> \o FmtTimeFull}

\* value was read from a set variable with no datetime_format
ReadWithoutFormat ==
    /\ pc = "done"
    /\ cls = "DateTimeEnvVariable"
    /\ datetime_format = Ellipsis
    /\ environ # MISSING

\* the microseconds a written fraction stands for
Micro(f) == DecVal(f) * Pow10(6 - Len(f))

Timestamp(y, m, d, h, mi, sec, us) ==
    [type |-> "datetime", data |-> <<y, m, d, h, mi, sec, us>>]

\* what is left of a timestamp: the time where the date is 1900-01-01, else
\* the date where the time is 00:00:00, else all of it
Kept(dt) ==
    IF SubSeq(dt.data, 1, 3) = <<1900, 1, 1>>
    THEN [type |-> "time", data |-> SubSeq(dt.data, 4, 7)]
    ELSE IF SubSeq(dt.data, 4, 7) = <<0, 0, 0, 0>>
         THEN [type |-> "date", data |-> SubSeq(dt.data, 1, 3)]
    ELSE dt

\* C2 as stated: a raw string matching a date+time candidate converts to the
\* full timestamp it writes, never to a bare date or a bare time.
C2_AsStated ==
    ReadWithoutFormat =>
        \A f \in DateTimeCandidates :
            strptime(environ.data, f).tag = "return" =>
                outcome = strptime(environ.data, f)

\* C2 amended: a raw string matching a date+time candidate converts to the
\* full timestamp it writes, except that a written date of 1900-01-01 gives
\* the bare time and, the date being another, a written time of 00:00:00
\* gives the bare date; the fields are those written in the raw string.
C2_DateTimeKept ==
    ReadWithoutFormat =>
        /\ \A f \in DateTimeCandidates :
              strptime(environ.data, f).tag = "return" =>
                  outcome = Return(Kept(strptime(environ.data, f).val))
        /\ \A y \in Years, m \in Months, d \in Days, h \in Hours, mi \in Minutes,
              sec \in Seconds, wd \in Widths, wt \in Widths :
              LET written == DateText(y, m, d, wd) \o <<" ">> \o TimeText(h, mi, sec, wt) IN
              /\ environ.data = written =>
                    outcome = Return(Kept(Timestamp(y, m, d, h, mi, sec, 0)))
              /\ \A f \in Fractions :
                    environ.data = written \o <<".">> \o f =>
                        outcome = Return(Kept(Timestamp(y, m, d, h, mi, sec, Micro(f))))

C2_Witness ==
    /\ ReadWithoutFormat
    /\ environ.data = DateText(2024, 3, 1, 2) \o <<" ">> \o TimeText(13, 5, 7, 2)
    /\ outcome = Return(Timestamp(2024, 3, 1, 13, 5, 7, 0))

\* C3 as stated: a raw string matching the date-only candidate converts to
\* the bare date it writes, never to a bare time or a full timestamp.
C3_AsStated ==
    ReadWithoutFormat /\ strptime(environ.data, FmtDate).tag = "return" =>
        /\ outcome.tag = "return"
        /\ outcome.val.type = "date"
        /\ outcome.val.data = SubSeq(strptime(environ.data, FmtDate).val.data, 1, 3)

\* C3 amended: a raw string matching the date-only candidate converts to the
\* bare date it writes, except that 1900-01-01 gives the bare time 00:00:00.
C3_DateOnly ==
    ReadWithoutFormat =>
        /\ strptime(environ.data, FmtDate).tag = "return" =>
              outcome = Return(Kept(strptime(environ.data, FmtDate).val))
        /\ \A y \in Years, m \in Months, d \in Days, w \in Widths :
              environ.data = DateText(y, m, d, w) =>
                  outcome = Return(IF <<y, m, d>> = <<1900, 1, 1>>
                                   THEN [type |-> "time", data |-> <<0, 0, 0, 0>>]
                                   ELSE [type |-> "date", data |-> <<y, m, d>>])

C3_Witness ==
    /\ ReadWithoutFormat
    /\ environ.data = DateText(2024, 3, 1, 2)
    /\ outcome = Return([type |-> "date", data |-> <<2024, 3, 1>>])

(***************************************************************************)
(* CollectionEnvVariable: the result built from the evaluated literal.     *)
(***************************************************************************)
\* value was read from a set variable and the assembled literal evaluated
ReadCollection ==
    /\ pc = "done"
    /\ cls = "CollectionEnvVariable"
    /\ environ # MISSING
    /\ collection.tag = "return"

\* the elements of the evaluated literal, in order
Parsed == Items(collection.val)

EndsWithColon(x) == x.type = "str" /\ x.data # <<>> /\ x.data[Len(x.data)] = ":"

\* the pairing rules: an even number of elements, each key ending with ':'
\* and no value ending with ':'
PairingHolds(items) ==
    /\ Len(items) % 2 = 0
    /\ \A j \in 1..Len(items) :
          /\ items[j].type = "str"
          /\ (j % 2 = 1) = EndsWithColon(items[j])

\* s without the characters of chars at its two ends
Trimmed(s, chars) ==
    LET keep == {i \in 1..Len(s) : s[i] \notin chars} IN
    IF keep = {} THEN <<>>
    ELSE SubSeq(s, CHOOSE i \in keep : \A k \in keep : i <= k,
                   CHOOSE i \in keep : \A k \in keep : i >= k)

\* a key element without its trailing ':' and the quotes around it
CleanKey(k) == Str(Trimmed(Trimmed(SubSeq(k.data, 1, Len(k.data) - 1), {"\""}), {"'"}))

\* the mapping of the pairs of items, a later pair replacing an earlier one
\* of the same key
MappingOf(items) ==
    [type |-> "dict",
     data |-> [key \in {CleanKey(items[j]) : j \in {i \in 1..Len(items) : i % 2 = 1}} |->
                 items[(CHOOSE j \in 1..Len(items) :
                           /\ j % 2 = 1
                           /\ CleanKey(items[j]) = key
                           /\ \A i \in (j + 1)..Len(items) :
                                 i % 2 = 1 => CleanKey(items[i]) # key) + 1]]]

\* the container of the given kind holding items
ContainerOf(kind, items) ==
    [type |-> kind, data |-> IF kind = "set" THEN Range(items) ELSE items]

\* C4 as stated: with list, tuple or set configured and the pairing rules
\* satisfied, convert still builds the mapping first and returns it.
C4_AsStated ==
    /\ ReadCollection
    /\ convert_collection_type \in {Type("list"), Type("tuple"), Type("set")}
    /\ PairingHolds(Parsed)
    => outcome = Return(MappingOf(Parsed))

\* C4 amended: with list, tuple or set configured and the pairing rules
\* satisfied, convert attempts no mapping: it returns the configured kind
\* built from the elements of the parsed tuple, keys with their ':' included.
C4_ExplicitKindBuilt ==
    /\ ReadCollection
    /\ convert_collection_type \in {Type("list"), Type("tuple"), Type("set")}
    /\ PairingHolds(Parsed)
    => outcome = Return(ContainerOf(convert_collection_type.data[1], Parsed))

C4_Witness ==
    /\ ReadCollection
    /\ convert_collection_type = Type("list")
    /\ environ.data = <<"{", "\"", "a", "\"", ":", " ", "1", ",", " ",
                        "\"", "b", "\"", ":", " ", "2", "}">>
    /\ outcome = Return([type |-> "list",
                         data |-> <<Str(<<"\"", "a", "\"", ":">>), Str(<<"1">>),
                                    Str(<<"\"", "b", "\"", ":">>), Str(<<"2">>)>>])

\* C5: with no kind configured, convert returns a mapping exactly when the
\* parsed tuple has even length and in every pair the key ends with ':' and
\* the value does not, whatever brackets surround the raw string; each key is
\* the key element without its trailing ':' and the quotes around it, each
\* value the value element.
C5_MappingIffPaired ==
    ReadCollection /\ convert_collection_type = Ellipsis =>
        /\ (outcome.tag = "return" /\ outcome.val.type = "dict") = PairingHolds(Parsed)
        /\ PairingHolds(Parsed) => outcome = Return(MappingOf(Parsed))

\* a bracketed raw string of one quoted key and its value gives a mapping
C5_Witness ==
    /\ ReadCollection
    /\ convert_collection_type = Ellipsis
    /\ environ.data = <<"[", "'", "a", "'", ":", " ", "1", "]">>
    /\ outcome = Return([type |-> "dict",
                         data |-> [key \in {Str(<<"a">>)} |-> Str(<<"1">>)]])

\* the kind the first and last characters of the trimmed raw string stand for
KindByEnds(raw) ==
    LET ends == IF raw = <<>> THEN <<>> ELSE <<raw[1], raw[Len(raw)]>> IN
    IF ends = <<"[", "]">> THEN "list"
    ELSE IF ends = <<"(", ")">> THEN "tuple"
    ELSE IF ends = <<"{", "}">> THEN "set"
    ELSE "list"

\* C6: with no kind configured and mapping construction failing, the first
\* and last characters of the trimmed raw string decide the kind: '[' and ']'
\* a list, '(' and ')' a tuple, '{' and '}' a set, every other pair a list;
\* this determination never raises.
C6_KindByEnds ==
    /\ ReadCollection
    /\ convert_collection_type = Ellipsis
    /\ _try_to_dict(collection.val) = Raise("ValueError")
    =>  outcome = Return(ContainerOf(KindByEnds(Trimmed(environ.data, Whitespace)), Parsed))

\* C7: with dict configured, convert returns the mapping where the pairing
\* rules hold and raises ValueError where they fail; it returns no list nor
\* any other value that is no mapping.
C7_DictOrValueError ==
    pc = "done" /\ cls = "CollectionEnvVariable" /\ environ # MISSING
       /\ convert_collection_type = Type("dict") =>
        /\ outcome.tag = "return" => outcome.val.type = "dict"
        /\ outcome.tag = "raise" => outcome = Raise("ValueError")
        /\ collection.tag = "return" =>
              outcome = IF PairingHolds(Parsed) THEN Return(MappingOf(Parsed))
                        ELSE Raise("ValueError")

\* C10: the tuple the assembled literal evaluates to holds strings only, one
\* for each whitespace-delimited token of the raw string, in token order.
C10_TupleOfTokens ==
    ReadCollection =>
        /\ collection.val.type = "tuple"
        /\ Len(collection.val.data) = Len(_clean_split(environ.data))
        /\ \A j \in 1..Len(collection.val.data) : collection.val.data[j].type = "str"

(***************************************************************************)
(* BooleanEnvVariable.                                                     *)
(***************************************************************************)
\* C8: convert strips the whitespace at the two ends of the raw string, then
\* returns True where the stripped string is a member of truthy_values, else
\* False where it is a member of falsy_values, else raises ValueError; the
\* comparison is exact and a string of both sets gives True.
C8_BooleanMembership ==
    pc = "done" /\ cls = "BooleanEnvVariable" /\ environ # MISSING =>
        LET cleaned == Trimmed(environ.data, Whitespace) IN
        outcome = IF \E i \in DOMAIN truthy_values : truthy_values[i] = cleaned
                  THEN Return(Bool(TRUE))
                  ELSE IF \E i \in DOMAIN falsy_values : falsy_values[i] = cleaned
                       THEN Return(Bool(FALSE))
                  ELSE Raise("ValueError")

\* truthy_values overridden, falsy_values as the class defines them: the
\* padded "0", a member of both, gives True
C8_Witness ==
    /\ pc = "done"
    /\ cls = "BooleanEnvVariable"
    /\ truthy_values = << <<"1">>, <<"0">> >>
    /\ falsy_values = DefaultFalsy
    /\ environ.data = <<" ", "0", " ">>
    /\ outcome = Return(Bool(TRUE))

(***************************************************************************)
(* CollectionEnvVariable: failures and tokens.                             *)
(***************************************************************************)
\* C11: whatever the raw string and the configured kind, a convert that fails
\* raises ValueError: also for a raw string of no token (empty, whitespace,
\* brackets only) and for a token ending with a backslash; no other exception
\* leaves convert.
C11_OnlyValueError ==
    pc = "done" /\ cls = "CollectionEnvVariable" /\ environ # MISSING =>
        (outcome.tag = "raise" => outcome = Raise("ValueError"))
\* the maximal runs of characters of s that are no whitespace, as index pairs
Runs(s) ==
    {r \in (1..Len(s)) \X (1..Len(s)) :
        /\ r[1] <= r[2]
        /\ \A k \in r[1]..r[2] : s[k] \notin Whitespace
        /\ r[1] = 1 \/ s[r[1] - 1] \in Whitespace
        /\ r[2] = Len(s) \/ s[r[2] + 1] \in Whitespace}

\* the whitespace-delimited tokens of the raw string without the whitespace
\* and the brackets at its two ends, in order
Tokens(raw) ==
    LET s == Trimmed(Trimmed(raw, Whitespace), _BRACKETS) IN
    [n \in 1..Cardinality(Runs(s)) |->
        LET r == CHOOSE r \in Runs(s) :
                    Cardinality({q \in Runs(s) : q[1] < r[1]}) = n - 1
        IN  SubSeq(s, r[1], r[2])]

\* a token without one trailing comma
CommaCut(token) ==
    IF token # <<>> /\ token[Len(token)] = ","
    THEN SubSeq(token, 1, Len(token) - 1)
    ELSE token

\* the element a token stands for: the content between a matching pair of
\* quotes, else the token as it is, one trailing comma dropped first
Normalized(token) ==
    IF /\ Len(CommaCut(token)) >= 2
       /\ CommaCut(token)[1] \in Quotes
       /\ CommaCut(token)[1] = CommaCut(token)[Len(CommaCut(token))]
    THEN SubSeq(CommaCut(token), 2, Len(CommaCut(token)) - 1)
    ELSE CommaCut(token)

\* C12: the raw string is split on whitespace only, commas staying inside the
\* tokens; each token yields one element: one trailing comma is dropped, a
\* token wrapped in a matching pair of quotes yields its inner content, a lone
\* quote yields the quote, every other token yields the token text itself.
C12_TokensNormalized ==
    pc = "done" /\ cls = "CollectionEnvVariable" /\ environ # MISSING
       /\ Tokens(environ.data) # <<>> =>
        collection = Return([type |-> "tuple",
                             data |-> [j \in 1..Len(Tokens(environ.data)) |->
                                          Str(Normalized(Tokens(environ.data)[j]))]])

(***************************************************************************)
(* DateTimeEnvVariable with datetime_format configured.                    *)
(***************************************************************************)
\* value was read from a set variable with datetime_format configured
ReadWithFormat ==
    /\ pc = "done"
    /\ cls = "DateTimeEnvVariable"
    /\ datetime_format # Ellipsis
    /\ environ # MISSING

====
